---- MODULE Spec2Model ----
(***************************************************************************)
(* Persona duels of prism: the /duel start and /duel stop command handlers *)
(* (src/prism/cogs/duel.py, DuelCog), the background run of a duel         *)
(* (_run_duel, _run_rounds_mode, _run_time_mode, _persona_speak,           *)
(* _add_opposing_reaction, _invoke_judge) and the DuelState model          *)
(* (src/prism/models/duel.py).                                             *)
(*                                                                         *)
(* Everything runs on one asyncio event loop: a step of the model is the   *)
(* code a coroutine executes between two awaits.  The position of a        *)
(* coroutine (pc) names the await it is suspended on.                      *)
(***************************************************************************)
EXTENDS Integers, Sequences, FiniteSets, TLC

(* ---------------------------- bounds ----------------------------------- *)
\* number of /duel start invocations (each may construct one DuelState)
MaxStarts == 2
\* largest duration argument tried by the interleaved /duel start commands
MaxDurationInput == 1
\* recovered failures (persona vanished, AI error, emoji service error, reaction
\* error, judge error) the environment injects into the duel of a lone command
MaxSoftFailures == 1
\* turns a TIME duel can fit before the clock moves again
MaxTimeTurns == 3
\* seconds the monotonic clock advances per Tick
TickSeconds == 60
\* longest suggestion list the emoji service returns
MaxSuggestions == 1
\* longest message whose typing delay is calculated
MaxMessageLen == 400
\* longest suggestion list the reaction selector is called with on its own
MaxSelectSuggestions == 2
\* asyncio.Lock objects the lock manager may create, and how often its clock moves
MaxLockObjects == 3
MaxLockTicks == 7
\* seconds the lock manager's clock advances per move
LockTick == 600
\* requests to the API whose outcomes are fixed in advance for one chat_completion
MaxRequestOutcomes == 6
\* longest transcript _build_messages is called with on its own
MaxBuildRecords == 3
\* longest text and largest limit _clip_to_discord_limit is called with
MaxClipText == 6
MaxClipLimit == 5

(* ------------------------ program constants ---------------------------- *)
\* TYPING_BASE_DELAY, TYPING_DELAY_PER_CHAR, TYPING_MAX_DELAY (3.0 s, 0.04 s,
\* 16.0 s), in hundredths of a second
TYPING_BASE_DELAY == 300
TYPING_DELAY_PER_CHAR == 4
TYPING_MAX_DELAY == 1600

\* ChannelLockManager: cleanup_threshold_sec (main.py:677) and _cleanup_interval
cleanup_threshold == 3600
cleanup_interval == 600

\* stop_after_attempt(3) of the retry decorator of chat_completion
stop_after_attempt == 3

default_rounds == 3
default_time == 120
max_rounds == 10
max_time == 300

DEFAULT_UNICODE_EMOJIS ==
    <<"fire", "star", "sparkles", "zap", "boom", "bulb", "muscle", "brain", "eyes", "clap">>

(* ----------------------------- domains --------------------------------- *)
\* the channel the interleaved commands are issued in
Channels == {1}
\* every channel a command may come from
AllChannels == {1, 2}
Starts == 1..MaxStarts
Personas == {"wizard", "pirate"}
Modes == {"rounds", "time"}
\* "none" is Python's None (the duration option left out)
None == -1
CustomEmojis == {"c1"}

Max(a, b) == IF a >= b THEN a ELSE b
Min(a, b) == IF a <= b THEN a ELSE b

VARIABLES
    prism_active_duels, \* bot.prism_active_duels: channel -> id of the DuelState (0: no key)
    duel,               \* the DuelState objects, by id (id = the start invocation that built it)
    task,               \* the asyncio task running _run_duel for each DuelState
    start,              \* the duel_start coroutines
    stop_reply,         \* what the last /duel stop on each channel answered
    hist,               \* observations of each duel's run (not program state)
    calc,               \* a call of a pure function: its name, argument and result
    locks               \* bot.prism_channel_locks, its lock objects, the clock it reads
                        \* and the coroutines that use it

vars == <<prism_active_duels, duel, task, start, stop_reply, hist, calc, locks>>

(* ------------------- src/prism/models/duel.py -------------------------- *)
\* the reading of time.monotonic() when a DuelState is constructed (the clock's
\* reference point is undefined; each duel's clock is kept relative to it)
MonotonicAtConstruction == 1000

\* the topic option of the command
TopicOption == "tabs or spaces"

\* DuelState(...): current_round = 1, messages = [], used_reactions = set(),
\* start_time = time.monotonic(). The field elapsed is the number of seconds
\* the clock has advanced since, 0 at construction and advanced by Tick.
NewDuelState(channel_id, persona1, persona2, topic, mode, duration) ==
    [channel_id |-> channel_id, persona1 |-> persona1, persona2 |-> persona2,
     topic |-> topic, mode |-> mode, duration |-> duration, current_round |-> 1,
     start_time |-> MonotonicAtConstruction, elapsed |-> 0,
     messages |-> <<>>, used_reactions |-> {}]

\* the slot of a DuelState that no duel_start has constructed yet
NoDuelState == NewDuelState(0, "", "", "", "rounds", 0)

\* time.monotonic() as this duel reads it: the reading at its construction plus
\* the seconds the clock has advanced since
monotonic(s) == MonotonicAtConstruction + s.elapsed

get_elapsed_time(s) == monotonic(s) - s.start_time

\* is_complete with the round comparison off by one
is_complete_inclusive(s) ==
    IF s.mode = "rounds"
    THEN s.current_round >= s.duration
    ELSE get_elapsed_time(s) >= s.duration

is_complete(s) ==
    IF s.mode = "rounds"
    THEN s.current_round > s.duration
    ELSE get_elapsed_time(s) >= s.duration

get_remaining_time(s) ==
    IF s.mode # "time" THEN 0 ELSE Max(0, s.duration - get_elapsed_time(s))

\* increment_round counting a round per speaker
increment_round_twice(s) == [s EXCEPT !.current_round = @ + 2]

increment_round(s) == [s EXCEPT !.current_round = @ + 1]

\* calculate_typing_delay as its docstring describes it (1.5 s + 0.02 s per
\* character, capped at 8 s)
calculate_typing_delay_as_documented(n) == Min(150 + n * 2, 800)

\* calculate_typing_delay(message), n = len(message), in hundredths of a second
calculate_typing_delay(n) ==
    LET char_delay == n * TYPING_DELAY_PER_CHAR
        total_delay == TYPING_BASE_DELAY + char_delay
    IN Min(total_delay, TYPING_MAX_DELAY)

(* ------------------- src/prism/cogs/duel.py: clipping ------------------ *)
\* a text is a sequence of characters
Chars == {"a", " ", "<", ">"}
Ellipsis == <<".", ".", ".">>

\* str.rstrip(): trailing whitespace removed
RECURSIVE rstrip(_)
rstrip(text) ==
    IF text = <<>> THEN <<>>
    ELSE IF text[Len(text)] = " " THEN rstrip(SubSeq(text, 1, Len(text) - 1))
    ELSE text

\* str.rfind(ch) as a position from 1, 0 when ch does not occur (Python: -1)
rfind(text, ch) ==
    IF \E i \in 1..Len(text) : text[i] = ch
    THEN CHOOSE i \in 1..Len(text) :
            text[i] = ch /\ \A j \in (i + 1)..Len(text) : text[j] # ch
    ELSE 0

\* ch in text
Contains(text, ch) == \E i \in 1..Len(text) : text[i] = ch

\* _clip_to_discord_limit(text, max_len), max_len >= 3
_clip_to_discord_limit(text, max_len) ==
    IF Len(text) <= max_len THEN text
    ELSE LET truncated == rstrip(SubSeq(text, 1, max_len - 3))
             partial_idx == rfind(truncated, "<")
         IN (IF partial_idx # 0
                   /\ ~Contains(SubSeq(truncated, partial_idx, Len(truncated)), ">")
             THEN rstrip(SubSeq(truncated, 1, partial_idx - 1))
             ELSE truncated) \o Ellipsis

(* ------------------- src/prism/cogs/duel.py: the AI request ------------- *)
\* the instruction that follows a replayed transcript (line 767)
ContinuePrompt == "Fire back! Keep it short and spicy - 2-3 sentences."

\* the user message that opens a duel (lines 743-747), as the tuple of its parts
OpeningPrompt(topic) ==
    <<"Topic: \"", topic, "\"", "",
      "Give a quick, punchy take on this. Keep it short - 2-3 sentences max. This is banter, not a speech!">>

\* a prompt builder that replays every record as input to respond to
_build_messages_all_as_user(system_prompt, s, current_persona) ==
    <<[role |-> "system", content |-> <<system_prompt>>]>>
    \o (IF s.messages = <<>>
        THEN <<[role |-> "user", content |-> OpeningPrompt(s.topic)]>>
        ELSE [i \in 1..Len(s.messages) |->
                [role |-> "user",
                 content |-> <<s.messages[i].display_name, ": ", s.messages[i].content>>]]
             \o <<[role |-> "user", content |-> <<ContinuePrompt>>]>>)

\* _build_messages(system_prompt, duel_state, current_persona); the content of
\* a message is the tuple of the parts of its text
_build_messages(system_prompt, s, current_persona) ==
    <<[role |-> "system", content |-> <<system_prompt>>]>>
    \o (IF s.messages = <<>>
        THEN <<[role |-> "user", content |-> OpeningPrompt(s.topic)]>>
        ELSE [i \in 1..Len(s.messages) |->
                IF s.messages[i].persona = current_persona
                THEN [role |-> "assistant", content |-> <<s.messages[i].content>>]
                ELSE [role |-> "user",
                      content |-> <<s.messages[i].display_name, ": ", s.messages[i].content>>]]
             \o <<[role |-> "user", content |-> <<ContinuePrompt>>]>>)

(* ------------------- the registry (a dict) ----------------------------- *)
\* a membership test that never finds the key
InActiveDuels_never(reg, channel_id) == FALSE

\* channel_id in self.bot.prism_active_duels
InActiveDuels(reg, channel_id) == reg[channel_id] # 0

\* self.bot.prism_active_duels[channel_id] = duel_state
StoreActiveDuel(reg, channel_id, d) == [reg EXCEPT ![channel_id] = d]

\* a cleanup that empties the whole registry
_cleanup_duel_all(reg, channel_id) == [c \in DOMAIN reg |-> 0]

\* _cleanup_duel: deletes the key channel_id when it is there, whoever owns it
_cleanup_duel(reg, channel_id) ==
    IF InActiveDuels(reg, channel_id) THEN [reg EXCEPT ![channel_id] = 0] ELSE reg

(* ------------------- duel_start: duration handling --------------------- *)
DuelModeOf(mode) == IF mode = "rounds" THEN "rounds" ELSE "time"

DurationOrDefault(mode, duration) ==
    IF duration = None
    THEN (IF DuelModeOf(mode) = "rounds" THEN default_rounds ELSE default_time \div 60)
    ELSE duration

\* the TIME check comparing the minutes asked for with the maximum in seconds
DurationRejected_minutes_as_seconds(mode, duration) ==
    IF DuelModeOf(mode) = "rounds"
    THEN duration < 1 \/ duration > max_rounds
    ELSE duration < 1 \/ duration > max_time

DurationRejected(mode, duration) ==
    IF DuelModeOf(mode) = "rounds"
    THEN duration < 1 \/ duration > max_rounds
    ELSE duration < 1 \/ duration > max_time \div 60

\* duel_start storing the minutes of a TIME duel as they were given
DurationValue_keeps_minutes(mode, duration) == duration

DurationValue(mode, duration) ==
    IF DuelModeOf(mode) = "rounds" THEN duration ELSE duration * 60

(* ------------------- initial state ------------------------------------- *)
NoTask == [pc |-> "none", persona_name |-> "", turn_index |-> 0, current_round |-> 0,
           response |-> "", emoji |-> "", exc |-> ""]

NoStart == [pc |-> "idle", channel |-> 0, persona1 |-> "", persona2 |-> "",
            mode |-> "", duration |-> 0, rec1 |-> FALSE, reply |-> ""]

\* no chat_completion request
NoRequest == [messages |-> <<>>, model |-> None, temperature |-> None]

NoHist == [turns |-> 0, ai_calls |-> 0, judge_calls |-> 0, judge_seen |-> <<>>,
           judge_request |-> NoRequest, judgment |-> <<>>,
           loop_exit |-> "", stopped |-> FALSE, stop_msgs |-> 0,
           stop_turns |-> 0, soft |-> 0, hard |-> FALSE, cancelled |-> FALSE]

(* ------------------- src/prism/services/openrouter_client.py ------------ *)
\* cfg.default_model and cfg.fallback_model
default_model == "default/model"
fallback_model == "fallback/model"

\* what one _chat_completion_once does: it returns, or raises OpenRouterError
\* (status >= 400, invalid JSON, malformed response) or an httpx error
RequestOutcomes == {"ok", "OpenRouterError", "HTTPError", "TimeoutException", "TransportError"}

\* the exceptions of the except clauses (lines 75, 81): TimeoutException and
\* TransportError are subclasses of HTTPError
Handled == {"OpenRouterError", "HTTPError", "TimeoutException", "TransportError"}

\* retry_if_exception_type of the decorator (line 57)
Retried == {"TimeoutException", "TransportError"}

\* the function body letting the fallback's own error out
chat_completion_once_through_fallback_error_raised(model, outcomes) ==
    LET chosen_model == IF model # "" THEN model ELSE default_model
    IN IF outcomes[1] = "ok"
       THEN [requests |-> <<chosen_model>>, raised |-> "", answered |-> chosen_model]
       ELSE IF outcomes[1] \in Handled
       THEN IF outcomes[2] = "ok"
            THEN [requests |-> <<chosen_model, fallback_model>>, raised |-> "",
                  answered |-> fallback_model]
            ELSE [requests |-> <<chosen_model, fallback_model>>, raised |-> outcomes[2],
                  answered |-> ""]
       ELSE [requests |-> <<chosen_model>>, raised |-> outcomes[1], answered |-> ""]

\* the body of chat_completion (lines 71-83), run once: model "" is None or
\* empty; outcomes are those of the requests it sends, in order
chat_completion_once_through(model, outcomes) ==
    LET chosen_model == IF model # "" THEN model ELSE default_model
    IN IF outcomes[1] = "ok"
       THEN [requests |-> <<chosen_model>>, raised |-> "", answered |-> chosen_model]
       ELSE IF outcomes[1] \in Handled
       THEN IF outcomes[2] = "ok"
            THEN [requests |-> <<chosen_model, fallback_model>>, raised |-> "",
                  answered |-> fallback_model]
            ELSE IF outcomes[2] \in Handled
            THEN [requests |-> <<chosen_model, fallback_model>>,
                  raised |-> "OpenRouterError", answered |-> ""]
            ELSE [requests |-> <<chosen_model, fallback_model>>, raised |-> outcomes[2],
                  answered |-> ""]
       ELSE [requests |-> <<chosen_model>>, raised |-> outcomes[1], answered |-> ""]

\* chat_completion under its retry decorator (lines 53-58): the body is run
\* again, up to stop_after_attempt times, while it raises a retried exception
RECURSIVE chat_completion(_, _, _)
chat_completion(model, outcomes, attempt) ==
    LET once == chat_completion_once_through(model, outcomes)
    IN IF once.raised \in Retried /\ attempt < stop_after_attempt
       THEN LET again == chat_completion(
                    model, SubSeq(outcomes, Len(once.requests) + 1, Len(outcomes)),
                    attempt + 1)
            IN [again EXCEPT !.requests = once.requests \o @]
       ELSE once

(* ------------------- src/prism/services/channel_locks.py ---------------- *)
\* the channels whose lock is asked for, the coroutines that ask, the lock objects
LockChannels == {1, 2}
Coroutines == {1, 2}
LockIds == 1..MaxLockObjects

\* ChannelLockManager() (lines 21-25) at clock reading 0, no lock object created
\* yet, no coroutine holding a reference; 0 is "no key" in _locks, None in
\* _last_used
NoLocks ==
    [_locks |-> [c \in LockChannels |-> 0],
     _last_used |-> [c \in LockChannels |-> None],
     _last_cleanup |-> 0,
     now |-> 0,
     created |-> 0,
     locked |-> [l \in LockIds |-> FALSE],
     co |-> [k \in Coroutines |-> [pc |-> "idle", channel |-> 0, lock |-> 0]]]

\* the keys _cleanup_old_locks removes at clock reading now (lines 57-74)
Removable(m, now) ==
    {c \in LockChannels :
        /\ m._last_used[c] # None
        /\ now - m._last_used[c] >= cleanup_threshold
        /\ m._locks[c] # 0
        /\ ~m.locked[m._locks[c]]}

_cleanup_old_locks(m, now) ==
    [m EXCEPT !._locks = [c \in LockChannels |->
                             IF c \in Removable(m, now) THEN 0 ELSE m._locks[c]],
              !._last_used = [c \in LockChannels |->
                             IF c \in Removable(m, now) THEN None ELSE m._last_used[c]]]

\* get_lock(channel_id) called by coroutine k, which keeps the lock it returns
get_lock(m, k, channel_id) ==
    LET now == m.now
        m1 == IF now - m._last_cleanup >= cleanup_interval
              THEN [_cleanup_old_locks(m, now) EXCEPT !._last_cleanup = now]
              ELSE m
        fresh == m1._locks[channel_id] = 0
        lock == IF fresh THEN m1.created + 1 ELSE m1._locks[channel_id]
    IN [m1 EXCEPT !._locks[channel_id] = lock,
                  !.created = IF fresh THEN @ + 1 ELSE @,
                  !._last_used[channel_id] = now,
                  !.co[k] = [pc |-> "waiting", channel |-> channel_id, lock |-> lock]]

\* get_lock may be called: a new lock object can still be created if needed
CanGetLock(m, channel_id) ==
    (m._locks[channel_id] = 0 \/ channel_id \in Removable(m, m.now)) =>
        m.created < MaxLockObjects

\* a coroutine asks for the lock of a channel (main.py:343)
GetLock(k, channel_id) ==
    /\ locks.co[k].pc = "idle"
    /\ CanGetLock(locks, channel_id)
    /\ locks' = get_lock(locks, k, channel_id)
    /\ UNCHANGED <<prism_active_duels, duel, task, start, stop_reply, hist, calc>>

\* asyncio.Lock.acquire returns: the lock was free or has been released
Acquire(k) ==
    /\ locks.co[k].pc = "waiting"
    /\ ~locks.locked[locks.co[k].lock]
    /\ locks' = [locks EXCEPT !.locked[locks.co[k].lock] = TRUE, !.co[k].pc = "holding"]
    /\ UNCHANGED <<prism_active_duels, duel, task, start, stop_reply, hist, calc>>

\* asyncio.Lock.release at the end of async with; the coroutine is done
Release(k) ==
    /\ locks.co[k].pc = "holding"
    /\ locks' = [locks EXCEPT !.locked[locks.co[k].lock] = FALSE,
                              !.co[k] = [pc |-> "idle", channel |-> 0, lock |-> 0]]
    /\ UNCHANGED <<prism_active_duels, duel, task, start, stop_reply, hist, calc>>

\* time.monotonic() advances
LockClock ==
    /\ locks.now < MaxLockTicks * LockTick
    /\ locks' = [locks EXCEPT !.now = @ + LockTick]
    /\ UNCHANGED <<prism_active_duels, duel, task, start, stop_reply, hist, calc>>

\* no pure function is being called
NoCalc == [fn |-> "", arg |-> 0, out |-> None]

Init ==
    /\ prism_active_duels = [c \in AllChannels |-> 0]
    /\ duel = [d \in Starts |-> NoDuelState]
    /\ task = [d \in Starts |-> NoTask]
    /\ start = [h \in Starts |-> NoStart]
    /\ stop_reply = [c \in AllChannels |-> ""]
    /\ hist = [d \in Starts |-> NoHist]
    /\ calc = NoCalc
    /\ locks = NoLocks

(* ------------------- /duel start ---------------------------------------- *)
\* a duel_start coroutine that has returned: its arguments are gone
Replied(c, reply) == [NoStart EXCEPT !.pc = "done", !.channel = c, !.reply = reply]

\* lines 165-180: the deferred response has returned; the active-duel check,
\* the same-persona check, then the coroutine awaits personas.get(persona1)
StartCheck(h, c, p1, p2, m, dur) ==
    /\ start[h].pc = "idle"
    /\ LET args == [NoStart EXCEPT !.channel = c, !.persona1 = p1, !.persona2 = p2,
                                   !.mode = m, !.duration = dur]
       IN start' = [start EXCEPT ![h] =
            IF InActiveDuels(prism_active_duels, c)
            THEN Replied(c, "already_active")
            ELSE IF p1 = p2
            THEN Replied(c, "same_persona")
            ELSE [args EXCEPT !.pc = "get1"]]
    /\ UNCHANGED <<prism_active_duels, duel, task, stop_reply, hist, calc, locks>>

\* line 180 returns; the coroutine awaits personas.get(persona2)
StartGet1(h, found) ==
    /\ start[h].pc = "get1"
    /\ start' = [start EXCEPT ![h].rec1 = found, ![h].pc = "get2"]
    /\ UNCHANGED <<prism_active_duels, duel, task, stop_reply, hist, calc, locks>>

\* duel_start registering the DuelState before it validates its arguments
StartGet2_registers_first(h, found) ==
    /\ start[h].pc = "get2"
    /\ LET s == start[h]
           duration == DurationOrDefault(s.mode, s.duration)
       IN /\ duel' = [duel EXCEPT ![h] =
                    NewDuelState(s.channel, s.persona1, s.persona2, TopicOption,
                                 DuelModeOf(s.mode),
                                 DurationValue(s.mode, duration))]
          /\ prism_active_duels' = StoreActiveDuel(prism_active_duels, s.channel, h)
          /\ start' = [start EXCEPT ![h] =
                IF ~s.rec1 \/ ~found THEN Replied(s.channel, "not_found")
                ELSE IF DurationRejected(s.mode, duration)
                THEN Replied(s.channel, "invalid_duration")
                ELSE [s EXCEPT !.pc = "announce"]]
    /\ UNCHANGED <<task, stop_reply, hist, calc, locks>>

\* lines 181-253: persona checks, duration checks, DuelState construction, the
\* store into prism_active_duels, then the coroutine awaits ctx.respond(announcement)
StartGet2(h, found) ==
    /\ start[h].pc = "get2"
    /\ LET s == start[h]
           duration == DurationOrDefault(s.mode, s.duration)
       IN IF ~s.rec1 \/ ~found
          THEN /\ start' = [start EXCEPT ![h] = Replied(s.channel, "not_found")]
               /\ UNCHANGED <<prism_active_duels, duel>>
          ELSE IF DurationRejected(s.mode, duration)
          THEN /\ start' = [start EXCEPT ![h] = Replied(s.channel, "invalid_duration")]
               /\ UNCHANGED <<prism_active_duels, duel>>
          ELSE /\ duel' = [duel EXCEPT ![h] =
                    NewDuelState(s.channel, s.persona1, s.persona2, TopicOption,
                                 DuelModeOf(s.mode),
                                 DurationValue(s.mode, duration))]
               /\ prism_active_duels' = StoreActiveDuel(prism_active_duels, s.channel, h)
               /\ start' = [start EXCEPT ![h].pc = "announce"]
    /\ UNCHANGED <<task, stop_reply, hist, calc, locks>>

\* lines 253-256: the announcement returns and asyncio.create_task schedules
\* _run_duel, or ctx.respond raises and the coroutine ends before create_task
StartAnnounce(h, ok) ==
    /\ start[h].pc = "announce"
    /\ start' = [start EXCEPT ![h] =
            Replied(start[h].channel, IF ok THEN "announced" ELSE "failed")]
    /\ task' = IF ok THEN [task EXCEPT ![h].pc = "start"] ELSE task
    /\ UNCHANGED <<prism_active_duels, duel, stop_reply, hist, calc, locks>>

(* ------------------- /duel stop ----------------------------------------- *)
\* duel_stop answering "cancelled" and leaving the removal to the run
Stop_keeps_entry(c) ==
    LET d == prism_active_duels[c] IN
    IF ~InActiveDuels(prism_active_duels, c)
    THEN /\ stop_reply' = [stop_reply EXCEPT ![c] = "no_active"]
         /\ UNCHANGED <<prism_active_duels, duel, task, start, hist, calc, locks>>
    ELSE /\ stop_reply' = [stop_reply EXCEPT ![c] = "cancelled"]
         /\ hist' = [hist EXCEPT ![d].stopped = TRUE,
                                 ![d].stop_msgs = Len(duel[d].messages),
                                 ![d].stop_turns = hist[d].turns]
         /\ UNCHANGED <<prism_active_duels, duel, task, start, calc, locks>>

\* lines 261-286, after the deferred response: no await between the check and
\* the del, so check and removal are one step
Stop(c) ==
    LET d == prism_active_duels[c] IN
    IF ~InActiveDuels(prism_active_duels, c)
    THEN /\ stop_reply' = [stop_reply EXCEPT ![c] = "no_active"]
         /\ UNCHANGED <<prism_active_duels, duel, task, start, hist, calc, locks>>
    ELSE /\ prism_active_duels' = [prism_active_duels EXCEPT ![c] = 0]
         /\ stop_reply' = [stop_reply EXCEPT ![c] = "cancelled"]
         /\ hist' = [hist EXCEPT ![d].stopped = TRUE,
                                 ![d].stop_msgs = Len(duel[d].messages),
                                 ![d].stop_turns = hist[d].turns]
         /\ UNCHANGED <<duel, task, start, calc, locks>>

(* ------------------- the background run: synchronous code --------------- *)
\* What one step of the task of duel d reads and writes: the registry, its
\* DuelState s, its own position t and the observations h.
World(d) == [reg |-> prism_active_duels, s |-> duel[d], t |-> task[d], h |-> hist[d]]

\* _run_duel without its finally clause
Finally_no_cleanup(w) == [w EXCEPT !.t = [NoTask EXCEPT !.pc = "done"]]

\* finally: self._cleanup_duel(duel_state, reason="final_cleanup"); the task ends
Finally(w) ==
    [w EXCEPT !.reg = _cleanup_duel(w.reg, w.s.channel_id),
              !.t = [NoTask EXCEPT !.pc = "done"]]

\* except clauses that leave the unregistering to the finally clause
Raise_cleanup_in_finally_only(w, exc) ==
    LET w1 == [w EXCEPT !.t.exc = exc, !.h.hard = TRUE,
                        !.h.cancelled = (exc = "CancelledError")]
    IN CASE exc \in {"NotFound", "CancelledError"} -> Finally(w1)
         [] OTHER -> [w1 EXCEPT !.t.pc = "notice"]

\* the except clauses of _run_duel (lines 327-389), up to their first await
Raise(w, exc) ==
    LET w1 == [w EXCEPT !.t.exc = exc, !.h.hard = TRUE,
                        !.h.cancelled = (exc = "CancelledError")]
        cleaned == [w1 EXCEPT !.reg = _cleanup_duel(w1.reg, w1.s.channel_id)]
    IN CASE exc = "NotFound" -> Finally(cleaned)
         [] exc \in {"Forbidden", "HTTPException"} -> [cleaned EXCEPT !.t.pc = "notice"]
         [] exc = "CancelledError" -> Finally(cleaned)
         [] OTHER -> [w1 EXCEPT !.t.pc = "notice"]

\* _persona_speak is entered: it awaits personas.get(persona_name)
BeginTurn(w, persona_name) ==
    [w EXCEPT !.t.pc = "lookup", !.t.persona_name = persona_name,
              !.t.response = "", !.t.emoji = "", !.h.turns = @ + 1]

\* JUDGE_SYSTEM_PROMPT (models/duel.py:18-31)
JUDGE_SYSTEM_PROMPT == "You are a neutral and impartial judge evaluating a debate between two participants."

\* f"{display_name}: {content}"; a formatted string is the tuple of its parts
NamedLine(display_name, content) == <<display_name, ": ", content>>

\* the judge's transcript naming the speakers by persona id
JudgeRequest_persona_ids(s) ==
    [messages |->
        << [role |-> "system", content |-> JUDGE_SYSTEM_PROMPT],
           [role |-> "user",
            content |-> << <<"Topic: \"", s.topic, "\"">>, "", "Debate Transcript:" >>
                        \o [i \in 1..Len(s.messages) |->
                               NamedLine(s.messages[i].persona, s.messages[i].content)]
                        \o << "", "Please evaluate this debate and declare a winner." >>] >>,
     model |-> None, temperature |-> None]

\* lines 784-806: the request _invoke_judge sends; the content of the user
\* message is the sequence of its lines
JudgeRequest(s) ==
    [messages |->
        << [role |-> "system", content |-> JUDGE_SYSTEM_PROMPT],
           [role |-> "user",
            content |-> << <<"Topic: \"", s.topic, "\"">>, "", "Debate Transcript:" >>
                        \o [i \in 1..Len(s.messages) |->
                               NamedLine(s.messages[i].display_name, s.messages[i].content)]
                        \o << "", "Please evaluate this debate and declare a winner." >>] >>,
     model |-> None, temperature |-> None]

\* lines 323-325: the judge is invoked when the channel still has a key;
\* _invoke_judge builds the transcript and awaits chat_completion
InvokeJudgeIfActive(w) ==
    IF InActiveDuels(w.reg, w.s.channel_id)
    THEN [w EXCEPT !.t.pc = "judge_ai", !.h.judge_calls = @ + 1,
                   !.h.judge_seen = w.s.messages,
                   !.h.judge_request = JudgeRequest(w.s)]
    ELSE Finally(w)

\* the mode loop is left: by completion (loop condition, break) or by return
LoopExit(w, how) ==
    InvokeJudgeIfActive([w EXCEPT !.h.loop_exit = how, !.t.current_round = 0])

\* _run_rounds_mode without the cancellation check at the top of the loop
RoundsLoop_no_cancel_check(w) ==
    IF is_complete(w.s) THEN LoopExit(w, "complete")
    ELSE BeginTurn([w EXCEPT !.t.current_round = w.s.current_round], w.s.persona1)

\* _run_rounds_mode from the loop condition (line 404) to the first await
RoundsLoop(w) ==
    IF is_complete(w.s) THEN LoopExit(w, "complete")
    ELSE IF ~InActiveDuels(w.reg, w.s.channel_id) THEN LoopExit(w, "cancelled")
    ELSE BeginTurn([w EXCEPT !.t.current_round = w.s.current_round], w.s.persona1)

\* _run_rounds_mode where a round is persona1's turn alone
RoundsAfterTurn_skips_persona2(w) ==
    RoundsLoop([w EXCEPT !.s = increment_round(w.s)])

\* _run_rounds_mode counting the round when persona1 has spoken
RoundsAfterTurn_increments_early(w) ==
    IF w.t.persona_name = w.s.persona1
    THEN IF ~InActiveDuels(w.reg, w.s.channel_id) THEN LoopExit(w, "cancelled")
         ELSE BeginTurn([w EXCEPT !.s = increment_round(w.s)], w.s.persona2)
    ELSE RoundsLoop(w)

\* _run_rounds_mode after a _persona_speak has returned (lines 422-437)
RoundsAfterTurn(w) ==
    IF w.t.persona_name = w.s.persona1
    THEN IF ~InActiveDuels(w.reg, w.s.channel_id) THEN LoopExit(w, "cancelled")
         ELSE BeginTurn(w, w.s.persona2)
    ELSE RoundsLoop([w EXCEPT !.s = increment_round(w.s)])

\* _run_time_mode without the expiry check before a turn
TimeLoop_no_expiry_check(w) ==
    IF ~InActiveDuels(w.reg, w.s.channel_id) THEN LoopExit(w, "cancelled")
    ELSE BeginTurn(w, IF w.t.turn_index % 2 = 0 THEN w.s.persona1 ELSE w.s.persona2)

\* _run_time_mode from the top of while True (line 453) to the first await
TimeLoop(w) ==
    IF ~InActiveDuels(w.reg, w.s.channel_id) THEN LoopExit(w, "cancelled")
    ELSE IF is_complete(w.s) THEN LoopExit(w, "complete")
    ELSE BeginTurn(w, IF w.t.turn_index % 2 = 0 THEN w.s.persona1 ELSE w.s.persona2)

\* _run_time_mode counting its turns in current_round
TimeAfterTurn_counts_rounds(w) ==
    LET w1 == [w EXCEPT !.t.turn_index = @ + 1, !.s = increment_round(w.s)]
    IN IF is_complete(w1.s) THEN LoopExit(w1, "complete") ELSE TimeLoop(w1)

\* _run_time_mode without turn_index += 1
TimeAfterTurn_keeps_turn_index(w) ==
    IF is_complete(w.s) THEN LoopExit(w, "complete") ELSE TimeLoop(w)

\* _run_time_mode after _persona_speak has returned (lines 477-481)
TimeAfterTurn(w) ==
    LET w1 == [w EXCEPT !.t.turn_index = @ + 1]
    IN IF is_complete(w1.s) THEN LoopExit(w1, "complete") ELSE TimeLoop(w1)

AfterTurn(w) == IF w.s.mode = "rounds" THEN RoundsAfterTurn(w) ELSE TimeAfterTurn(w)

\* the first step of the task: _run_duel dispatches on the mode
RunMode(w) == IF w.s.mode = "rounds" THEN RoundsLoop(w) ELSE TimeLoop(w)

\* first element of seq that is not in used, "" (None) when there is none
RECURSIVE FirstUnused(_, _)
FirstUnused(seq, used) ==
    IF seq = <<>> THEN ""
    ELSE IF Head(seq) \notin used THEN Head(seq)
    ELSE FirstUnused(Tail(seq), used)

\* a selector that takes the first suggestion without looking at used_reactions
_get_reaction_emoji_unfiltered(suggestions, used) ==
    IF suggestions # <<>> THEN Head(suggestions)
    ELSE FirstUnused(DEFAULT_UNICODE_EMOJIS, used)

\* a selector that prefers the default pool to the suggestions
_get_reaction_emoji_defaults_first(suggestions, used) ==
    IF FirstUnused(DEFAULT_UNICODE_EMOJIS, used) # ""
    THEN FirstUnused(DEFAULT_UNICODE_EMOJIS, used)
    ELSE FirstUnused(suggestions, used)

\* _get_reaction_emoji after suggest_for_text has answered
_get_reaction_emoji(suggestions, used) ==
    IF FirstUnused(suggestions, used) # ""
    THEN FirstUnused(suggestions, used)
    ELSE FirstUnused(DEFAULT_UNICODE_EMOJIS, used)

\* persona_record.data.display_name of the stored personas: one has a display
\* name of its own, one has none
PersonaDisplayName(name) == IF name = "wizard" THEN "Merlin the Wise" ELSE ""

\* str.capitalize of a persona name (one word, so also the joined parts of 553-554)
Capitalize(name) ==
    CASE name = "wizard" -> "Wizard"
      [] name = "pirate" -> "Pirate"
      [] OTHER -> name

\* display_name of _persona_speak: the capitalized name when the persona is
\* gone (516), else the record's display name or, if blank, the capitalized name
DisplayName(name, found) ==
    IF found /\ PersonaDisplayName(name) # "" THEN PersonaDisplayName(name)
    ELSE Capitalize(name)

\* the record _persona_speak appends after a successful send
TurnRecord(w) ==
    [role |-> "assistant", persona |-> w.t.persona_name, content |-> w.t.response,
     display_name |-> DisplayName(w.t.persona_name, w.t.response # "vanished"),
     call |-> IF w.t.response = "reply" THEN w.h.ai_calls ELSE 0]

(* ------------------- the background run: steps -------------------------- *)
\* a TIME duel fits MaxTimeTurns turns between two moves of the clock
Bounded(w) == w.s.mode = "time" => w.h.turns <= MaxTimeTurns

Commit(d, w) ==
    /\ Bounded(w)
    /\ prism_active_duels' = w.reg
    /\ duel' = [duel EXCEPT ![d] = w.s]
    /\ task' = [task EXCEPT ![d] = w.t]
    /\ hist' = [hist EXCEPT ![d] = w.h]
    /\ UNCHANGED <<start, stop_reply, calc, locks>>

SoftBudget(d, budget, failed) == failed => hist[d].soft < budget

RunStart(d) ==
    /\ task[d].pc = "start"
    /\ Commit(d, RunMode(World(d)))

\* personas.get returns a record, returns None (line 512) or raises
Lookup(d, budget, out) ==
    /\ task[d].pc = "lookup"
    /\ SoftBudget(d, budget, out = "none")
    /\ LET w == World(d)
       IN Commit(d, CASE out = "found" ->
                         [w EXCEPT !.t.pc = "ai", !.h.ai_calls = @ + 1]
                      [] out = "none" ->
                         [w EXCEPT !.t.pc = "typing", !.t.response = "vanished",
                                   !.h.soft = @ + 1]
                      [] OTHER -> Raise(w, "Exception"))

\* _persona_speak without the try around chat_completion: its error propagates
AiReply_failure_propagates(d, budget, ok) ==
    /\ task[d].pc = "ai"
    /\ SoftBudget(d, budget, ~ok)
    /\ LET w == World(d)
       IN Commit(d, IF ok THEN [w EXCEPT !.t.pc = "typing", !.t.response = "reply"]
                    ELSE Raise([w EXCEPT !.h.soft = @ + 1], "Exception"))

\* chat_completion returns, or raises and the placeholder is used (lines 535-548)
AiReply(d, budget, ok) ==
    /\ task[d].pc = "ai"
    /\ SoftBudget(d, budget, ~ok)
    /\ LET w == World(d)
       IN Commit(d, IF ok THEN [w EXCEPT !.t.pc = "typing", !.t.response = "reply"]
                    ELSE [w EXCEPT !.t.pc = "typing", !.t.response = "thinking",
                                   !.h.soft = @ + 1])

\* simulate_typing returns (its errors are swallowed); channel.send is awaited
TypingDone(d) ==
    /\ task[d].pc = "typing"
    /\ Commit(d, [World(d) EXCEPT !.t.pc = "send"])

\* _persona_speak keeping only the latest record as its history
Send_keeps_last_only(d, out) ==
    /\ task[d].pc = "send"
    /\ LET w == World(d)
       IN Commit(d, IF out = "ok"
                    THEN [w EXCEPT !.s.messages = <<TurnRecord(w)>>,
                                   !.t.pc = "suggest"]
                    ELSE Raise(w, out))

\* channel.send returns (lines 575-583: the record is appended and the emoji
\* service is asked) or raises a discord exception, which propagates
Send(d, out) ==
    /\ task[d].pc = "send"
    /\ LET w == World(d)
       IN Commit(d, IF out = "ok"
                    THEN [w EXCEPT !.s.messages = Append(@, TurnRecord(w)),
                                   !.t.pc = "suggest"]
                    ELSE Raise(w, out))

\* suggest_for_text returns a list or raises (then []); the emoji is chosen and
\* the reaction delay starts, or there is no emoji and the turn is over
Suggest(d, budget, lists, suggestions, ok) ==
    /\ task[d].pc = "suggest"
    /\ SoftBudget(d, budget, ~ok)
    /\ suggestions \in lists
    /\ LET w == World(d)
           emoji == _get_reaction_emoji(IF ok THEN suggestions ELSE <<>>,
                                        w.s.used_reactions)
           w1 == [w EXCEPT !.t.emoji = emoji, !.h.soft = IF ok THEN @ ELSE @ + 1]
       IN Commit(d, IF emoji # "" THEN [w1 EXCEPT !.t.pc = "react_sleep"]
                    ELSE AfterTurn(w1))

\* asyncio.sleep(random.uniform(4.0, 12.0)) returns; add_reaction is awaited
ReactSleepDone(d) ==
    /\ task[d].pc = "react_sleep"
    /\ Commit(d, [World(d) EXCEPT !.t.pc = "react"])

\* _add_opposing_reaction without its except clauses: a failed add_reaction
\* propagates to _run_duel
React_failure_propagates(d, budget, ok) ==
    /\ task[d].pc = "react"
    /\ SoftBudget(d, budget, ~ok)
    /\ LET w == World(d)
       IN Commit(d, IF ok
                    THEN AfterTurn([w EXCEPT !.s.used_reactions = @ \cup {w.t.emoji}])
                    ELSE Raise([w EXCEPT !.h.soft = @ + 1], "Forbidden"))

\* add_reaction returns (the emoji is tracked) or raises (swallowed); the turn
\* is over and the mode runner goes on
React(d, budget, ok) ==
    /\ task[d].pc = "react"
    /\ SoftBudget(d, budget, ~ok)
    /\ LET w == World(d)
       IN Commit(d, AfterTurn(
                IF ok THEN [w EXCEPT !.s.used_reactions = @ \cup {w.t.emoji}]
                ELSE [w EXCEPT !.h.soft = @ + 1]))

\* what the judge's chat_completion may do: answer a verdict, answer an empty
\* text, raise
JudgeOutcomes == {"verdict", "empty", "error"}

\* the text _invoke_judge uses when chat_completion raised (line 809)
JudgeTechnicalIssue == "The judge was unable to render a verdict due to a technical issue."

\* the text format_judge_response uses for an empty response (models/duel.py:61)
JudgeNoVerdict == "The judge was unable to render a verdict."

\* format_judge_response(judge_response, duel_state): the lines of the message
format_judge_response(judge_response) ==
    <<"**JUDGMENT**", "", IF judge_response = "" THEN JudgeNoVerdict ELSE judge_response>>

\* _invoke_judge without the try around chat_completion: its error propagates
JudgeReply_failure_propagates(d, budget, out) ==
    /\ task[d].pc = "judge_ai"
    /\ SoftBudget(d, budget, out # "verdict")
    /\ LET w == World(d)
           w1 == [w EXCEPT !.h.soft = IF out = "verdict" THEN @ ELSE @ + 1]
       IN Commit(d, IF out = "error" THEN Raise(w1, "Exception")
                    ELSE [w1 EXCEPT !.t.pc = "judge_typing",
                                    !.t.response = IF out = "verdict" THEN "verdict" ELSE ""])

\* the judge's chat_completion returns a verdict or an empty text, or raises
\* and the technical-issue text is used (lines 803-809)
JudgeReply(d, budget, out) ==
    /\ task[d].pc = "judge_ai"
    /\ SoftBudget(d, budget, out # "verdict")
    /\ LET w == World(d)
       IN Commit(d, [w EXCEPT !.t.pc = "judge_typing",
                              !.t.response = CASE out = "verdict" -> "verdict"
                                               [] out = "empty" -> ""
                                               [] OTHER -> JudgeTechnicalIssue,
                              !.h.soft = IF out = "verdict" THEN @ ELSE @ + 1])

JudgeTypingDone(d) ==
    /\ task[d].pc = "judge_typing"
    /\ Commit(d, [World(d) EXCEPT !.t.pc = "judge_send"])

\* the judgment is posted and _run_duel reaches finally, or the send raises
JudgeSend(d, out) ==
    /\ task[d].pc = "judge_send"
    /\ LET w == World(d)
       IN Commit(d, IF out = "ok"
                    THEN Finally([w EXCEPT !.h.judgment = format_judge_response(w.t.response)])
                    ELSE Raise(w, out))

\* the failure notice of an except clause was sent or failed (swallowed)
NoticeDone(d) ==
    /\ task[d].pc = "notice"
    /\ Commit(d, Finally(World(d)))

AwaitPcs == {"lookup", "ai", "typing", "send", "suggest", "react_sleep", "react",
             "judge_ai", "judge_typing", "judge_send", "notice"}

\* a cancellation that ends the task with no except clause and no finally
TaskCancelled_no_cleanup(d) ==
    /\ task[d].pc \in AwaitPcs
    /\ Commit(d, [World(d) EXCEPT !.t = [NoTask EXCEPT !.pc = "done"],
                                  !.h.hard = TRUE, !.h.cancelled = TRUE])

\* The task is cancelled (asyncio.run cancels what is left at shutdown):
\* CancelledError is raised at the await the task is suspended on; inside an
\* except clause only finally is left to run.  A task scheduled by create_task
\* takes its first step before the loop that scheduled it can be torn down, so
\* the position "start" is not cancelled.
TaskCancelled(d) ==
    /\ task[d].pc \in AwaitPcs
    /\ LET w == World(d)
       IN Commit(d, IF w.t.pc = "notice"
                    THEN Finally([w EXCEPT !.h.cancelled = TRUE])
                    ELSE Raise(w, "CancelledError"))

\* time.monotonic() advances: every running TIME duel sees TickSeconds more
Ticking(d) ==
    /\ duel[d].channel_id # 0
    /\ duel[d].mode = "time"
    /\ task[d].pc # "done"
    /\ ~is_complete(duel[d])

Tick ==
    /\ \E d \in Starts : Ticking(d)
    /\ duel' = [d \in Starts |->
                  IF Ticking(d) THEN [duel[d] EXCEPT !.elapsed = @ + TickSeconds]
                  ELSE duel[d]]
    /\ UNCHANGED <<prism_active_duels, task, start, stop_reply, hist, calc, locks>>

(* ------------------- specification -------------------------------------- *)
SendOutcomes == {"ok", "NotFound", "Forbidden", "HTTPException"}
LookupOutcomes == {"found", "none", "error"}

RECURSIVE SeqsUpTo(_, _)
SeqsUpTo(S, n) ==
    IF n = 0 THEN {<<>>}
    ELSE LET shorter == SeqsUpTo(S, n - 1)
         IN shorter \cup {Append(q, e) : q \in shorter, e \in S}

\* what suggest_for_text may answer
SuggestionLists == SeqsUpTo(CustomEmojis, MaxSuggestions)

RunStep(d, lists, budget) ==
    \/ RunStart(d)
    \/ \E out \in LookupOutcomes : Lookup(d, budget, out)
    \/ \E ok \in BOOLEAN : AiReply(d, budget, ok)
    \/ TypingDone(d)
    \/ \E out \in SendOutcomes : Send(d, out)
    \/ \E l \in lists, ok \in BOOLEAN : Suggest(d, budget, lists, l, ok)
    \/ ReactSleepDone(d)
    \/ \E ok \in BOOLEAN : React(d, budget, ok)
    \/ \E out \in JudgeOutcomes : JudgeReply(d, budget, out)
    \/ JudgeTypingDone(d)
    \/ \E out \in SendOutcomes : JudgeSend(d, out)
    \/ NoticeDone(d)

StartStep(h) ==
    \/ \E found \in BOOLEAN : StartGet1(h, found)
    \/ \E found \in BOOLEAN : StartGet2(h, found)
    \/ \E ok \in BOOLEAN : StartAnnounce(h, ok)

\* Interleaved commands: MaxStarts /duel start invocations with valid
\* arguments, /duel stop at any time, the runs they launch, shutdown.
Next ==
    \/ \E h \in Starts, c \in Channels, m \in Modes, dur \in 1..MaxDurationInput :
          StartCheck(h, c, "wizard", "pirate", m, dur)
    \/ \E h \in Starts : StartStep(h)
    \/ \E c \in Channels : Stop(c)
    \/ \E d \in Starts : RunStep(d, {<<>>}, 0)
    \/ \E d \in Starts : TaskCancelled(d)
    \/ Tick

Spec == Init /\ [][Next]_vars

\* One /duel start with any arguments (every duration from below the range to
\* above it, the option left out, equal personas), its run with the emoji
\* service answering no suggestion, /duel stop, shutdown.
DurationInputs == {None} \cup (0..(max_rounds + 1))

SoloNext ==
    \/ \E c \in Channels, p2 \in Personas, m \in Modes, dur \in DurationInputs :
          StartCheck(1, c, "wizard", p2, m, dur)
    \/ StartStep(1)
    \/ \E c \in Channels : Stop(c)
    \/ RunStep(1, {<<>>}, MaxSoftFailures)
    \/ TaskCancelled(1)
    \/ Tick

SoloSpec == Init /\ [][SoloNext]_vars

\* One /duel start with valid arguments whose run is offered every suggestion
\* list the emoji service may answer, /duel stop, shutdown.
ReactNext ==
    \/ \E c \in Channels, m \in Modes, dur \in 1..MaxDurationInput :
          StartCheck(1, c, "wizard", "pirate", m, dur)
    \/ StartStep(1)
    \/ \E c \in Channels : Stop(c)
    \/ RunStep(1, SuggestionLists, MaxSoftFailures)
    \/ TaskCancelled(1)
    \/ Tick

ReactSpec == Init /\ [][ReactNext]_vars

\* Interleaved /duel start commands with valid and invalid arguments (equal
\* personas, a duration below or above the range), /duel stop, the runs they
\* launch, shutdown.
AdmitDurations == (0..MaxDurationInput) \cup {max_rounds + 1}

AdmitNext ==
    \/ \E h \in Starts, c \in Channels, p2 \in Personas, m \in Modes,
          dur \in AdmitDurations :
          StartCheck(h, c, "wizard", p2, m, dur)
    \/ \E h \in Starts : StartStep(h)
    \/ \E c \in Channels : Stop(c)
    \/ \E d \in Starts : RunStep(d, {<<>>}, 0)
    \/ \E d \in Starts : TaskCancelled(d)
    \/ Tick

AdmitSpec == Init /\ [][AdmitNext]_vars

\* A /duel start in each channel (the command numbered h is issued in channel
\* h), /duel stop in any channel, the runs they launch, shutdown.
CrossNext ==
    \/ \E h \in Starts \cap AllChannels, m \in Modes, dur \in 1..MaxDurationInput :
          StartCheck(h, h, "wizard", "pirate", m, dur)
    \/ \E h \in Starts \cap AllChannels : StartStep(h)
    \/ \E c \in AllChannels : Stop(c)
    \/ \E d \in Starts : RunStep(d, {<<>>}, 0)
    \/ \E d \in Starts : TaskCancelled(d)
    \/ Tick

CrossSpec == Init /\ [][CrossNext]_vars

\* calculate_typing_delay is called with a message of any length up to
\* MaxMessageLen
DelayInit ==
    /\ prism_active_duels = [c \in AllChannels |-> 0]
    /\ duel = [d \in Starts |-> NoDuelState]
    /\ task = [d \in Starts |-> NoTask]
    /\ start = [h \in Starts |-> NoStart]
    /\ stop_reply = [c \in AllChannels |-> ""]
    /\ hist = [d \in Starts |-> NoHist]
    /\ calc \in {[fn |-> "calculate_typing_delay", arg |-> n, out |-> None] :
                    n \in 0..MaxMessageLen}
    /\ locks = NoLocks

CalculateTypingDelay ==
    /\ calc.fn = "calculate_typing_delay"
    /\ calc.out = None
    /\ calc' = [calc EXCEPT !.out = calculate_typing_delay(calc.arg)]
    /\ UNCHANGED <<prism_active_duels, duel, task, start, stop_reply, hist, locks>>

DelayNext == CalculateTypingDelay

DelaySpec == DelayInit /\ [][DelayNext]_vars

\* _clip_to_discord_limit is called with any text of up to MaxClipText
\* characters and any limit from 3 to MaxClipLimit
ClipToDiscordLimit ==
    /\ calc.fn = ""
    /\ \E text \in SeqsUpTo(Chars, MaxClipText), max_len \in 3..MaxClipLimit :
          calc' = [fn |-> "_clip_to_discord_limit",
                   arg |-> [text |-> text, max_len |-> max_len],
                   out |-> _clip_to_discord_limit(text, max_len)]
    /\ UNCHANGED <<prism_active_duels, duel, task, start, stop_reply, hist, locks>>

ClipNext == ClipToDiscordLimit

ClipSpec == Init /\ [][ClipNext]_vars

\* the records a transcript may hold: either persona, a reply or a placeholder
BuildRecords ==
    {[role |-> "assistant", persona |-> p, content |-> c,
      display_name |-> DisplayName(p, c # "vanished"), call |-> 0] :
        p \in Personas, c \in {"reply", "vanished"}}

\* _build_messages is called for either persona with any transcript of up to
\* MaxBuildRecords records
BuildMessages ==
    /\ calc.fn = ""
    /\ \E current_persona \in Personas, messages \in SeqsUpTo(BuildRecords, MaxBuildRecords) :
          LET s == [NewDuelState(1, "wizard", "pirate", TopicOption, "rounds", 3)
                       EXCEPT !.messages = messages]
          IN calc' = [fn |-> "_build_messages",
                      arg |-> [current_persona |-> current_persona, duel_state |-> s],
                      out |-> _build_messages("system_prompt", s, current_persona)]
    /\ UNCHANGED <<prism_active_duels, duel, task, start, stop_reply, hist, locks>>

BuildNext == BuildMessages

BuildSpec == Init /\ [][BuildNext]_vars

\* chat_completion is called with or without a model, the outcomes of the
\* requests it may send being any of RequestOutcomes
ChatCompletion ==
    /\ calc.fn = ""
    /\ \E model \in {"", "persona/model"},
          outcomes \in [1..MaxRequestOutcomes -> RequestOutcomes] :
          calc' = [fn |-> "chat_completion",
                   arg |-> [model |-> model, outcomes |-> outcomes],
                   out |-> chat_completion(model, outcomes, 1)]
    /\ UNCHANGED <<prism_active_duels, duel, task, start, stop_reply, hist, locks>>

ChatNext == ChatCompletion

ChatSpec == Init /\ [][ChatNext]_vars

\* Coroutines ask the lock manager for channel locks, acquire and release them
\* while the clock advances.
LockNext ==
    \/ \E k \in Coroutines, c \in LockChannels : GetLock(k, c)
    \/ \E k \in Coroutines : Acquire(k)
    \/ \E k \in Coroutines : Release(k)
    \/ LockClock

LockSpec == Init /\ [][LockNext]_vars

\* the custom emojis the selector is called with on its own, and the tokens a
\* duel may have used
SelectEmojis == {"c1", "c2"}
SelectUsed ==
    SUBSET (SelectEmojis \cup {DEFAULT_UNICODE_EMOJIS[i] : i \in 1..Len(DEFAULT_UNICODE_EMOJIS)})

\* _get_reaction_emoji is called with a suggestion list and a used_reactions set
GetReactionEmoji ==
    /\ calc.fn = ""
    /\ \A h \in Starts : start[h].pc = "idle"
    /\ \E suggestions \in SeqsUpTo(SelectEmojis, MaxSelectSuggestions), used \in SelectUsed :
          calc' = [fn |-> "_get_reaction_emoji",
                   arg |-> [suggestions |-> suggestions, used |-> used],
                   out |-> _get_reaction_emoji(suggestions, used)]
    /\ UNCHANGED <<prism_active_duels, duel, task, start, stop_reply, hist, locks>>

\* Either the selector is called on its own with any suggestion list and any
\* used_reactions, or one duel runs as in ReactSpec.
SelectNext ==
    \/ GetReactionEmoji
    \/ calc.fn = "" /\ ReactNext

SelectSpec == Init /\ [][SelectNext]_vars

\* The same commands under the event loop's scheduling: a coroutine that can
\* take its next step (its awaited call returns or raises) takes it, and the
\* monotonic clock keeps advancing.  Commands, failures and shutdown are not
\* forced to happen.
FairSpec ==
    /\ Spec
    /\ \A h \in Starts : WF_vars(StartStep(h))
    /\ \A d \in Starts : WF_vars(RunStep(d, {<<>>}, 0))
    /\ WF_vars(Tick)

(* ------------------- properties ----------------------------------------- *)
Constructed(d) == duel[d].channel_id # 0
Registered(d) == Constructed(d) /\ prism_active_duels[duel[d].channel_id] = d
Alive(d) == task[d].pc \notin {"none", "done"}
Ended(d) == task[d].pc = "done"
IsRounds(d) == Constructed(d) /\ duel[d].mode = "rounds"

\* C1: at most one background run is alive (launched, not yet terminated) for
\* a channel, in every reachable state.
C1_OneRunPerChannel ==
    \A d1 \in Starts, d2 \in Starts :
        (Alive(d1) /\ Alive(d2) /\ duel[d1].channel_id = duel[d2].channel_id) => d1 = d2

C3_RejectedWhileRegistered ==
    [][\A h \in Starts :
          (start[h].pc = "idle" /\ start'[h].pc # "idle") =>
              IF prism_active_duels[start'[h].channel] # 0
              THEN /\ start'[h].pc = "done"
                   /\ start'[h].reply = "already_active"
                   /\ prism_active_duels' = prism_active_duels
                   /\ duel' = duel
              ELSE start'[h].reply # "already_active"]_vars

\* C3 witness: a Start was rejected as already-active and the entry it found is
\* still the registered DuelState of a live run.
C3_Witness ==
    \E h \in Starts, d \in Starts :
        /\ start[h].pc = "done" /\ start[h].reply = "already_active"
        /\ prism_active_duels[start[h].channel] = d
        /\ Alive(d)

\* C4: once a duel's background run has terminated, by whatever path, the
\* registry holds no entry for that run's DuelState.
C4_NoEntryAfterRunEnds ==
    \A d \in Starts : Ended(d) => ~Registered(d)

\* C4 witness: a run that ended on an error path (transport error, unexpected
\* exception or task cancellation) without any Stop.
C4_Witness ==
    \E d \in Starts : Ended(d) /\ hist[d].hard /\ ~hist[d].stopped

\* C5: every admitted (registered) duel eventually terminates (no run of it is
\* alive) with its registry entry removed, when every awaited call returns or
\* raises and the clock advances; and a ROUNDS duel of duration R takes at most
\* 2R turns.
C5_AdmittedDuelEnds ==
    /\ \A d \in Starts : Registered(d) ~> (~Alive(d) /\ ~Registered(d))
    /\ [](\A d \in Starts : IsRounds(d) => hist[d].turns <= 2 * duel[d].duration)

\* C6: a ROUNDS duel of duration R whose run met no transport error and no
\* Stop has had its turn executor invoked exactly 2R times, and current_round
\* is R+1, when the rounds loop has exited.
C6_TwoTurnsPerRound ==
    \A d \in Starts :
        (IsRounds(d) /\ hist[d].loop_exit # "" /\ ~hist[d].hard /\ ~hist[d].stopped) =>
            /\ hist[d].turns = 2 * duel[d].duration
            /\ duel[d].current_round = duel[d].duration + 1

\* C6 witness: a 10-round duel whose loop has exited after 20 turns.
C6_Witness ==
    \E d \in Starts :
        /\ IsRounds(d) /\ duel[d].duration = max_rounds
        /\ hist[d].loop_exit = "complete" /\ ~hist[d].hard /\ ~hist[d].stopped
        /\ hist[d].turns = 2 * max_rounds

\* C7: for a ROUNDS DuelState is_complete() is true exactly when current_round
\* > duration: false at current_round = duration, true after one
\* increment_round() from there.
C7_CompleteIffPastDuration ==
    \A d \in Starts :
        IsRounds(d) =>
            /\ is_complete(duel[d]) <=> duel[d].current_round > duel[d].duration
            /\ duel[d].current_round = duel[d].duration =>
                  (~is_complete(duel[d]) /\ is_complete(increment_round(duel[d])))

\* C7 witness: a 1-round duel after the one increment_round that takes it from
\* the boundary current_round = duration to completion.
C7_Witness ==
    \E d \in Starts :
        /\ IsRounds(d) /\ duel[d].duration = 1 /\ duel[d].current_round = 2
        /\ is_complete(duel[d])

Undisturbed(d) == ~hist[d].hard /\ ~hist[d].stopped

\* C8: in a ROUNDS duel with no error and no Stop the transcript alternates
\* persona1, persona2, persona1, ...; when the run has ended the transcript
\* has 2R records, the judge was invoked exactly once, with all 2R records,
\* and the channel is unregistered.
C8_AlternationAndJudge ==
    \A d \in Starts :
        (IsRounds(d) /\ Undisturbed(d)) =>
            /\ \A i \in 1..Len(duel[d].messages) :
                  duel[d].messages[i].persona =
                      IF i % 2 = 1 THEN duel[d].persona1 ELSE duel[d].persona2
            /\ Ended(d) =>
                  /\ Len(duel[d].messages) = 2 * duel[d].duration
                  /\ hist[d].judge_calls = 1
                  /\ hist[d].judge_seen = duel[d].messages
                  /\ ~InActiveDuels(prism_active_duels, duel[d].channel_id)

\* C8 witness: a 2-round duel that ended undisturbed with 4 records.
C8_Witness ==
    \E d \in Starts :
        /\ IsRounds(d) /\ duel[d].duration = 2 /\ Undisturbed(d) /\ Ended(d)
        /\ Len(duel[d].messages) = 4

\* the scenario of C9: a 5-round duel with found personas and working AI and
\* transport, ended after a Stop
StoppedFiveRounds(d) ==
    /\ IsRounds(d) /\ duel[d].duration = 5
    /\ hist[d].stopped /\ ~hist[d].hard /\ hist[d].soft = 0
    /\ Ended(d)

StoppedOutcome(d) ==
    /\ hist[d].ai_calls = 2
    /\ hist[d].judge_calls = 0
    /\ ~InActiveDuels(prism_active_duels, duel[d].channel_id)

C10_NoTurnAfterStop ==
    [][\A d \in Starts : hist[d].stopped => hist'[d].turns = hist[d].turns]_vars

\* C11: the judge is invoked for a duel only in a step in which its mode loop
\* ended by completion and the duel's own registry entry is still present; a
\* duel whose entry was removed before its loop ended gets no judge call.
C11_JudgeOnlyWhenRegistered ==
    [][\A d \in Starts :
          hist'[d].judge_calls > hist[d].judge_calls =>
              /\ hist'[d].loop_exit = "complete"
              /\ Registered(d)
              /\ ~hist[d].stopped]_vars

\* C12: unregistering is idempotent and each registered entry is deleted exactly
\* once: a step of a duel's run made while the duel's own entry is gone (removed
\* by Stop or by an earlier cleanup) leaves the registry as it is; an entry
\* leaves the registry only by being deleted; a DuelState is stored at most
\* once; and a duel whose run has ended is not registered.
C12_UnregisterOnce ==
    /\ [][\A d \in Starts :
             (Constructed(d) /\ task'[d] # task[d] /\ ~Registered(d)) =>
                 prism_active_duels' = prism_active_duels]_vars
    /\ [][\A d \in Starts, c \in AllChannels :
             (prism_active_duels[c] = d /\ prism_active_duels'[c] # d) =>
                 prism_active_duels'[c] = 0]_vars
    /\ [][\A d \in Starts, c \in AllChannels :
             (prism_active_duels'[c] = d /\ prism_active_duels[c] # d) =>
                 ~Constructed(d)]_vars
    /\ [](\A d \in Starts : Ended(d) => ~Registered(d))

\* what channel c owns: its registry entry and, of every duel of the channel,
\* the transcript, current_round and used_reactions
ChannelView(c) ==
    [entry |-> prism_active_duels[c],
     duels |-> [d \in Starts |->
                  IF duel[d].channel_id = c
                  THEN <<duel[d].messages, duel[d].current_round, duel[d].used_reactions>>
                  ELSE <<>>]]

\* a step of a command or of a run of channel c
ActsOn(c) ==
    \/ \E h \in Starts : start'[h] # start[h] /\ start'[h].channel = c
    \/ \E d \in Starts : task'[d] # task[d] /\ duel'[d].channel_id = c
    \/ stop_reply'[c] # stop_reply[c]
    \/ prism_active_duels'[c] # prism_active_duels[c]

\* C13: a step of Start, Stop, a turn or a cleanup of channel c leaves the
\* registry entry, transcript, current_round and used_reactions of the duels of
\* every other channel unchanged.
C13_ChannelsIndependent ==
    [][\A c \in AllChannels, c2 \in AllChannels :
          (ActsOn(c) /\ c2 # c) => ChannelView(c2)' = ChannelView(c2)]_vars

\* C13 witness: duels are registered in two channels at the same time, both
\* with a live run that has spoken.
C13_Witness ==
    \E d1 \in Starts, d2 \in Starts :
        /\ duel[d1].channel_id = 1 /\ duel[d2].channel_id = 2
        /\ Registered(d1) /\ Registered(d2) /\ Alive(d1) /\ Alive(d2)
        /\ Len(duel[d1].messages) > 0 /\ Len(duel[d2].messages) > 0

Rejections == {"already_active", "same_persona", "not_found", "invalid_duration"}

\* C14: a Start rejected for an admission error (already active, equal
\* personas, persona not found, invalid duration) has changed nothing: no step
\* of a duel_start that has stored no DuelState changes the registry, a
\* DuelState or a task, and a rejected duel_start has constructed no DuelState
\* and launched no run.
C14_RejectedStartNoState ==
    /\ [][\A h \in Starts :
             (start'[h] # start[h] /\ ~Constructed(h)') =>
                 /\ prism_active_duels' = prism_active_duels
                 /\ duel' = duel
                 /\ task' = task]_vars
    /\ [](\A h \in Starts :
             start[h].reply \in Rejections =>
                 (~Constructed(h) /\ task[h].pc = "none" /\ start[h].pc = "done"))

\* C14 witness: one Start was rejected for its duration while the duel admitted
\* by the other Start is still registered with a live run.
C14_Witness ==
    \E h \in Starts, d \in Starts :
        /\ start[h].reply = "invalid_duration"
        /\ Registered(d) /\ Alive(d)

\* the magnitude a duel_start asks for, in the unit of its mode (rounds, or
\* seconds for TIME), and the maximum of the mode
Magnitude(s) == DurationValue(s.mode, DurationOrDefault(s.mode, s.duration))
ModeMax(mode) == IF DuelModeOf(mode) = "rounds" THEN max_rounds ELSE max_time
OutsideRange(s) == Magnitude(s) < 1 \/ Magnitude(s) > ModeMax(s.mode)

\* C15 as stated: a Start whose persona lookups have returned is rejected with
\* the invalid-duration error exactly when its magnitude is outside
\* [1, mode.max] (10 rounds, 300 seconds).
C15_InvalidDurationIffOutside ==
    [][\A h \in Starts :
          (start[h].pc = "get2" /\ start'[h].pc # "get2") =>
              (start'[h].reply = "invalid_duration" <=> OutsideRange(start[h]))]_vars

\* C15 amended: a Start that passed the earlier admission checks (no active
\* duel, distinct personas, both personas found) is rejected with the
\* invalid-duration error exactly when its magnitude is outside [1, mode.max];
\* with a magnitude inside the range it is admitted with that duration.
C15_InvalidDurationIffOutsideWhenFound ==
    [][\A h \in Starts :
          (start[h].pc = "get2" /\ start'[h].pc # "get2"
              /\ start'[h].reply # "not_found") =>
              /\ start'[h].reply = "invalid_duration" <=> OutsideRange(start[h])
              /\ ~OutsideRange(start[h]) =>
                    /\ start'[h].pc = "announce"
                    /\ duel'[h].duration = Magnitude(start[h])]_vars

\* C15 witness: a Start with found personas was rejected for its duration.
C15_Witness ==
    \E h \in Starts :
        /\ start[h].pc = "done" /\ start[h].reply = "invalid_duration"
        /\ ~Constructed(h)

\* a step of duel_stop on channel c: no duel_start, run or clock moves, and the
\* channel's entry or the command's answer changes
StopStep(c) ==
    /\ start' = start /\ task' = task /\ duel' = duel
    /\ prism_active_duels'[c] # prism_active_duels[c] \/ stop_reply'[c] # stop_reply[c]

\* C16: Stop on a channel with no entry answers no-active-duel and changes
\* nothing; Stop on a channel with an entry removes the entry in the step that
\* answers, without any step of the run; and Stop can act whatever the run is
\* doing.
C16_StopReplies ==
    /\ [][\A c \in AllChannels :
             StopStep(c) =>
                 IF prism_active_duels[c] = 0
                 THEN /\ stop_reply'[c] = "no_active"
                      /\ prism_active_duels' = prism_active_duels
                      /\ hist' = hist
                 ELSE /\ stop_reply'[c] = "cancelled"
                      /\ prism_active_duels'[c] = 0]_vars
    /\ [](\A c \in Channels : ENABLED Stop(c))

\* C16 witness: Stop has answered and removed the entry of a duel whose run is
\* still in the middle of a turn.
C16_Witness ==
    \E d \in Starts :
        /\ hist[d].stopped /\ stop_reply[duel[d].channel_id] = "cancelled"
        /\ prism_active_duels[duel[d].channel_id] = 0
        /\ task[d].pc \in {"lookup", "ai", "typing", "send"}

\* the fixed lines of _persona_speak: persona not found, AI call failed
Placeholders == {"vanished", "thinking"}

\* the turn in progress has not appended its record yet
InTurnBeforeAppend(d) == task[d].pc \in {"lookup", "ai", "typing", "send"}

\* C17: a turn whose persona lookup returns not-found or whose AI call raises
\* is recovered: the step sets the placeholder line as the turn's text and
\* goes on to the typing delay without an error; the send that follows appends
\* exactly one record, with that text; and the run goes on: with no transport
\* error and no Stop every turn begun has its one record, and a run that ended
\* has taken all its turns (2R in ROUNDS mode) and invoked the judge once.
C17_SoftFailureRecovered ==
    /\ [][\A d \in Starts :
             (task[d].pc \in {"lookup", "ai"} /\ hist'[d].soft > hist[d].soft) =>
                 /\ task'[d].pc = "typing"
                 /\ task'[d].response =
                        (IF task[d].pc = "lookup" THEN "vanished" ELSE "thinking")
                 /\ ~hist'[d].hard
                 /\ duel'[d].messages = duel[d].messages]_vars
    /\ [][\A d \in Starts :
             (task[d].pc = "send" /\ task'[d].pc = "suggest") =>
                 /\ Len(duel'[d].messages) = Len(duel[d].messages) + 1
                 /\ SubSeq(duel'[d].messages, 1, Len(duel[d].messages)) = duel[d].messages
                 /\ duel'[d].messages[Len(duel'[d].messages)].content = task[d].response
                 /\ duel'[d].messages[Len(duel'[d].messages)].persona =
                        task[d].persona_name]_vars
    /\ [](\A d \in Starts :
             (Constructed(d) /\ Undisturbed(d)) =>
                 /\ Len(duel[d].messages) =
                        hist[d].turns - (IF InTurnBeforeAppend(d) THEN 1 ELSE 0)
                 /\ Ended(d) =>
                        /\ hist[d].judge_calls = 1
                        /\ IsRounds(d) => Len(duel[d].messages) = 2 * duel[d].duration)

\* C17 witness: a ROUNDS duel of two rounds or more ended with no transport
\* error and no Stop, its first record is a placeholder line, all 2R records
\* are there and the judge was invoked.
C17_Witness ==
    \E d \in Starts :
        /\ IsRounds(d) /\ duel[d].duration >= 2 /\ Ended(d) /\ Undisturbed(d)
        /\ Len(duel[d].messages) = 2 * duel[d].duration
        /\ duel[d].messages[1].content \in Placeholders
        /\ hist[d].judge_calls = 1

\* C18: when the send of a turn fails (not-found, forbidden or another
\* transport error) the step appends no record, removes the channel's registry
\* entry and leaves the judge uninvoked; and a run that has failed starts no
\* further turn, appends nothing and never invokes the judge.
C18_SendFailureEndsDuel ==
    /\ [][\A d \in Starts :
             (task[d].pc = "send" /\ hist'[d].hard /\ ~hist'[d].cancelled) =>
                 /\ duel'[d].messages = duel[d].messages
                 /\ prism_active_duels'[duel[d].channel_id] = 0
                 /\ hist'[d].judge_calls = 0
                 /\ hist'[d].turns = hist[d].turns
                 /\ task'[d].pc \in {"notice", "done"}]_vars
    /\ [][\A d \in Starts :
             hist[d].hard =>
                 /\ hist'[d].turns = hist[d].turns
                 /\ duel'[d].messages = duel[d].messages
                 /\ hist'[d].judge_calls = hist[d].judge_calls]_vars

\* C18 witness: the send of a duel's second turn was answered forbidden: the
\* run is at its failure notice with one record, no entry, no judge call.
C18_Witness ==
    \E d \in Starts :
        /\ task[d].pc = "notice" /\ task[d].exc = "Forbidden"
        /\ hist[d].turns = 2 /\ Len(duel[d].messages) = 1
        /\ prism_active_duels[duel[d].channel_id] = 0
        /\ hist[d].judge_calls = 0

\* C19: a run can be cancelled at every await it is suspended on (persona
\* lookup, AI call, typing delay, send, emoji suggestion, reaction delay,
\* reaction, judge call, judge typing, judge send, failure notice); the step
\* that cancels it ends the task with the channel's registry entry removed and
\* invokes no judge, and nothing of the run happens afterwards.
C19_CancelledRunUnregisters ==
    /\ [][\A d \in Starts :
             (hist'[d].cancelled /\ ~hist[d].cancelled) =>
                 /\ task[d].pc \in AwaitPcs
                 /\ task'[d].pc = "done"
                 /\ prism_active_duels'[duel[d].channel_id] = 0
                 /\ hist'[d].judge_calls = hist[d].judge_calls]_vars
    /\ [][\A d \in Starts :
             hist[d].cancelled =>
                 /\ task'[d] = task[d]
                 /\ duel'[d].messages = duel[d].messages
                 /\ hist'[d].judge_calls = hist[d].judge_calls]_vars
    /\ [](\A d \in Starts : task[d].pc \in AwaitPcs => ENABLED TaskCancelled(d))

\* C19 witness: a run was cancelled after its first record and before any
\* judge call; it has ended and the channel has no entry.
C19_Witness ==
    \E d \in Starts :
        /\ hist[d].cancelled /\ Ended(d)
        /\ Len(duel[d].messages) = 1 /\ hist[d].judge_calls = 0
        /\ prism_active_duels[duel[d].channel_id] = 0

IsTime(d) == Constructed(d) /\ duel[d].mode = "time"

\* the await that follows pc inside a turn when nothing fails
NextInTurn(pc) ==
    CASE pc = "lookup" -> {"ai", "typing"}
      [] pc = "ai" -> {"typing"}
      [] pc = "typing" -> {"send"}
      [] pc = "send" -> {"suggest"}
      [] OTHER -> {}

\* C20: in TIME mode, once elapsed time has reached the duration it stays
\* reached and no turn is started; a turn in progress then still goes through
\* its awaits to the send and appends its record; and the turn that ends after
\* the deadline is followed by the exit of the loop by completion, so only the
\* turn in progress at the deadline finishes after it.
C20_TimeDeadline ==
    /\ [][\A d \in Starts :
             (IsTime(d) /\ is_complete(duel[d])) =>
                 /\ hist'[d].turns = hist[d].turns
                 /\ is_complete(duel'[d])]_vars
    /\ [][\A d \in Starts :
             (IsTime(d) /\ is_complete(duel[d]) /\ InTurnBeforeAppend(d)
                 /\ task'[d] # task[d] /\ ~hist'[d].hard) =>
                 /\ task'[d].pc \in NextInTurn(task[d].pc)
                 /\ task[d].pc = "send" =>
                        Len(duel'[d].messages) = Len(duel[d].messages) + 1]_vars
    /\ [][\A d \in Starts :
             (IsTime(d) /\ is_complete(duel[d]) /\ task[d].pc \in {"suggest", "react"}
                 /\ task'[d].pc \notin {"suggest", "react_sleep", "react"}
                 /\ ~hist'[d].hard) =>
                 /\ hist'[d].loop_exit = "complete"
                 /\ task'[d].pc \in {"judge_ai", "done"}]_vars

\* C20 witness: the second turn of a TIME duel is about to send although the
\* duration has elapsed.
C20_Witness ==
    \E d \in Starts :
        /\ IsTime(d) /\ is_complete(duel[d])
        /\ task[d].pc = "send" /\ hist[d].turns = 2

\* C21: within one duel the reaction selector never returns a token that is in
\* used_reactions; a reaction that succeeds applies a token that was not used
\* before in the duel and adds it; and used_reactions only grows.
C21_NoReactionTwice ==
    /\ [][\A d \in Starts :
             (task[d].pc = "suggest" /\ task'[d].pc = "react_sleep") =>
                 (task'[d].emoji # "" /\ task'[d].emoji \notin duel[d].used_reactions)]_vars
    /\ [][\A d \in Starts :
             (Constructed(d) /\ duel'[d].used_reactions # duel[d].used_reactions) =>
                 /\ task[d].pc = "react"
                 /\ task[d].emoji \notin duel[d].used_reactions
                 /\ duel'[d].used_reactions = duel[d].used_reactions \cup {task[d].emoji}]_vars
    /\ [](\A d \in Starts :
             task[d].pc \in {"react_sleep", "react"} =>
                 task[d].emoji \notin duel[d].used_reactions)

\* C21 witness: the emoji service suggested the same custom emoji for both
\* turns of a duel: the first reaction used it, the second one fell back to the
\* first default emoji.
C21_Witness ==
    \E d \in Starts : duel[d].used_reactions = {"c1", "fire"}

\* C22: a failure of the emoji suggestion call or of the React call is no error
\* of the run and changes neither the transcript nor used_reactions; and
\* whatever reactions failed, a run with no transport error and no Stop has one
\* record per turn begun, in the order persona1, persona2, ..., and once ended
\* it has had all its turns (2R in ROUNDS mode) and one judge invocation.
C22_ReactionFailureIgnored ==
    /\ [][\A d \in Starts :
             (task[d].pc \in {"suggest", "react"} /\ hist'[d].soft > hist[d].soft) =>
                 /\ ~hist'[d].hard
                 /\ duel'[d].messages = duel[d].messages
                 /\ duel'[d].used_reactions = duel[d].used_reactions
                 /\ task'[d].pc # "notice"]_vars
    /\ [](\A d \in Starts :
             (Constructed(d) /\ Undisturbed(d)) =>
                 /\ \A i \in 1..Len(duel[d].messages) :
                       duel[d].messages[i].persona =
                           IF i % 2 = 1 THEN duel[d].persona1 ELSE duel[d].persona2
                 /\ hist[d].turns =
                        Len(duel[d].messages) + (IF InTurnBeforeAppend(d) THEN 1 ELSE 0)
                 /\ Ended(d) =>
                        /\ hist[d].judge_calls = 1
                        /\ IsRounds(d) =>
                              /\ hist[d].turns = 2 * duel[d].duration
                              /\ duel[d].current_round = duel[d].duration + 1)

\* C22 witness: a 2-round duel ended with its 4 records and its judge call
\* although one of its 4 reactions failed (3 tokens used).
C22_Witness ==
    \E d \in Starts :
        /\ IsRounds(d) /\ duel[d].duration = 2 /\ Ended(d) /\ Undisturbed(d)
        /\ hist[d].soft = 1 /\ Cardinality(duel[d].used_reactions) = 3
        /\ Len(duel[d].messages) = 4 /\ hist[d].judge_calls = 1

C24_CleanupOnlyOwnEntry ==
    [][\A d \in Starts, c \in AllChannels :
          (Constructed(d) /\ task'[d] # task[d]
              /\ prism_active_duels'[c] # prism_active_duels[c]) =>
              prism_active_duels[c] = d]_vars

\* C25: every DuelState in the registry has a background run or a duel_start
\* that is still going to launch one: a registered duel whose task was never
\* created has its duel_start at the announcement.
C25_RegisteredDuelHasRun ==
    \A d \in Starts :
        (Registered(d) /\ task[d].pc = "none") => start[d].pc = "announce"

\* C26: once Stop has succeeded for a duel, no judge verdict of that duel is
\* sent: the step in which the judge's send returns is never taken by a
\* stopped duel.
C26_NoVerdictAfterStop ==
    [][\A d \in Starts :
          (task[d].pc = "judge_send" /\ task'[d].pc = "done" /\ ~hist'[d].hard) =>
              ~hist[d].stopped]_vars

\* the awaits of a turn, and those after the turn's record was appended
TurnPcs == {"lookup", "ai", "typing", "send", "suggest", "react_sleep", "react"}
AfterAppendPcs == {"suggest", "react_sleep", "react"}

\* C27: in a ROUNDS duel 1 <= current_round <= duration + 1; a turn in progress
\* was given the round number X = current_round, 1 <= X <= duration, the same
\* for persona1's and persona2's turn of the round; the transcript has
\* 2*(current_round - 1) records when persona1's turn begins at the top of the
\* loop (one more in persona2's turn, one more once the turn's record is
\* appended) and when the loop ends by completion; and current_round changes
\* only by +1, at the end of persona2's turn, when the round's two records are
\* there.
C27_RoundCounter ==
    /\ [](\A d \in Starts :
             IsRounds(d) =>
                 /\ 1 <= duel[d].current_round
                 /\ duel[d].current_round <= duel[d].duration + 1
                 /\ task[d].pc \in TurnPcs =>
                       /\ task[d].current_round = duel[d].current_round
                       /\ duel[d].current_round <= duel[d].duration
                       /\ Len(duel[d].messages) =
                              2 * (duel[d].current_round - 1)
                              + (IF task[d].persona_name = duel[d].persona2 THEN 1 ELSE 0)
                              + (IF task[d].pc \in AfterAppendPcs THEN 1 ELSE 0)
                 /\ hist[d].loop_exit = "complete" =>
                       Len(duel[d].messages) = 2 * (duel[d].current_round - 1))
    /\ [][\A d \in Starts :
             (IsRounds(d) /\ duel'[d].current_round # duel[d].current_round) =>
                 /\ duel'[d].current_round = duel[d].current_round + 1
                 /\ task[d].pc \in {"suggest", "react"}
                 /\ task[d].persona_name = duel[d].persona2
                 /\ Len(duel[d].messages) = 2 * duel[d].current_round]_vars

\* C27 witness: persona2's turn of the third and last round of a 3-round duel
\* is about to send, with round number 3 and 5 records.
C27_Witness ==
    \E d \in Starts :
        /\ IsRounds(d) /\ duel[d].duration = 3 /\ task[d].pc = "send"
        /\ task[d].persona_name = duel[d].persona2
        /\ task[d].current_round = 3 /\ Len(duel[d].messages) = 5

\* the run of duel d is inside _invoke_judge
Judging(d) == task[d].pc \in {"judge_ai", "judge_typing", "judge_send"}

\* C28: a duel has turns, then at most one judge invocation, then its end: no
\* turn begins and no record is appended once the judge was invoked, the judge
\* is invoked at most once and never after the run ended; and the duel's
\* registry entry, once stored, leaves the registry only in a step of Stop on
\* its channel or in a step of the duel's own run, so it is there throughout
\* judging unless Stop removed it.
C28_ActiveJudgingTerminal ==
    /\ [][\A d \in Starts :
             hist[d].judge_calls > 0 =>
                 /\ hist'[d].turns = hist[d].turns
                 /\ duel'[d].messages = duel[d].messages
                 /\ hist'[d].judge_calls = hist[d].judge_calls]_vars
    /\ [][\A d \in Starts :
             Ended(d) => hist'[d].judge_calls = hist[d].judge_calls /\ Ended(d)']_vars
    /\ [][\A d \in Starts :
             (Registered(d) /\ ~Registered(d)') =>
                 \/ ~hist[d].stopped /\ hist'[d].stopped
                 \/ task'[d] # task[d]]_vars
    /\ [](\A d \in Starts : (Judging(d) /\ ~hist[d].stopped) => Registered(d))

\* C29: the transcript of a duel changes only in the step in which a turn's
\* send succeeded, and then by one record appended after all existing ones:
\* role "assistant", the speaking persona, its display name and the turn's
\* content; a send that failed, a reaction, the judge, Stop and every cleanup
\* leave the transcript as it is.
C29_TranscriptAppendOnly ==
    [][\A d \in Starts :
          LET old == duel[d].messages
              new == duel'[d].messages
              sent == task[d].pc = "send" /\ task'[d].pc = "suggest"
          IN /\ sent =>
                  /\ Len(new) = Len(old) + 1
                  /\ SubSeq(new, 1, Len(old)) = old
                  /\ new[Len(new)].role = "assistant"
                  /\ new[Len(new)].persona = task[d].persona_name
                  /\ new[Len(new)].content = task[d].response
                  /\ new[Len(new)].display_name =
                         DisplayName(task[d].persona_name, task[d].response # "vanished")
             /\ ~sent => new = old]_vars

\* C29 witness: a duel whose first send succeeded and whose second send was
\* answered Forbidden is in its except clause with the one record of the first
\* turn.
C29_Witness ==
    \E d \in Starts :
        /\ task[d].pc = "notice" /\ task[d].exc = "Forbidden" /\ hist[d].turns = 2
        /\ Len(duel[d].messages) = 1
        /\ duel[d].messages[1].display_name = "Merlin the Wise"

\* C30: in a TIME duel the k-th turn begun (k counted from 0) is spoken by
\* persona1 when k is even and by persona2 when k is odd, whatever the clock
\* did during the turns before it and whether or not they used a placeholder;
\* the turns that appended a record appear in the transcript in that order.
C30_TimeAlternation ==
    /\ [][\A d \in Starts :
             (IsTime(d) /\ hist'[d].turns # hist[d].turns) =>
                 /\ hist'[d].turns = hist[d].turns + 1
                 /\ task'[d].pc = "lookup"
                 /\ task'[d].persona_name =
                        IF hist[d].turns % 2 = 0 THEN duel[d].persona1
                        ELSE duel[d].persona2]_vars
    /\ [](\A d \in Starts :
             IsTime(d) =>
                 /\ task[d].pc \in TurnPcs =>
                       /\ task[d].turn_index = hist[d].turns - 1
                       /\ task[d].persona_name =
                              IF (hist[d].turns - 1) % 2 = 0 THEN duel[d].persona1
                              ELSE duel[d].persona2
                 /\ \A i \in 1..Len(duel[d].messages) :
                       duel[d].messages[i].persona =
                           IF (i - 1) % 2 = 0 THEN duel[d].persona1
                           ELSE duel[d].persona2)

\* C30 witness: the turn of index 2 of a TIME duel is spoken by persona1 again,
\* after two turns that appended their records and a move of the clock.
C30_Witness ==
    \E d \in Starts :
        /\ IsTime(d) /\ task[d].pc = "send" /\ task[d].turn_index = 2
        /\ task[d].persona_name = duel[d].persona1
        /\ Len(duel[d].messages) = 2 /\ duel[d].elapsed > 0

\* C31: in a TIME duel current_round stays 1 for the whole run and is_complete()
\* is exactly "the clock has advanced by at least duration since start_time",
\* whatever current_round is; and in both modes start_time, mode, duration,
\* topic, persona1 and persona2 of a constructed DuelState never change.
C31_TimeIgnoresRounds ==
    /\ [](\A d \in Starts :
             IsTime(d) =>
                 /\ duel[d].current_round = 1
                 /\ is_complete(duel[d]) <=>
                        (monotonic(duel[d]) - duel[d].start_time >= duel[d].duration)
                 /\ \A r \in 1..(max_rounds + 1) :
                        is_complete([duel[d] EXCEPT !.current_round = r])
                            = is_complete(duel[d]))
    /\ [][\A d \in Starts :
             Constructed(d) =>
                 /\ duel'[d].start_time = duel[d].start_time
                 /\ duel'[d].mode = duel[d].mode
                 /\ duel'[d].duration = duel[d].duration
                 /\ duel'[d].topic = duel[d].topic
                 /\ duel'[d].persona1 = duel[d].persona1
                 /\ duel'[d].persona2 = duel[d].persona2]_vars

\* C31 witness: a TIME duel has ended after three turns, the clock having moved
\* past its duration, with its topic and personas as given to the command.
C31_Witness ==
    \E d \in Starts :
        /\ IsTime(d) /\ Ended(d) /\ Len(duel[d].messages) = 3
        /\ hist[d].judge_calls = 1
        /\ get_elapsed_time(duel[d]) >= duel[d].duration
        /\ duel[d].topic = TopicOption /\ duel[d].start_time = MonotonicAtConstruction

\* C32: every DuelState in the registry has a duration valid for its own mode:
\* from 1 to 10 (rounds) when the mode is ROUNDS, and one of 60, 120, 180, 240,
\* 300 (seconds) when the mode is TIME.
C32_RegisteredDurationValid ==
    \A c \in AllChannels :
        LET d == prism_active_duels[c] IN
        InActiveDuels(prism_active_duels, c) =>
            /\ duel[d].mode \in {"rounds", "time"}
            /\ duel[d].mode = "rounds" =>
                   (1 <= duel[d].duration /\ duel[d].duration <= 10)
            /\ duel[d].mode = "time" =>
                   duel[d].duration \in {60, 120, 180, 240, 300}

\* C32 witness: a TIME duel asked for with 5 minutes is registered with 300.
C32_Witness ==
    \E c \in AllChannels :
        /\ InActiveDuels(prism_active_duels, c)
        /\ duel[prism_active_duels[c]].mode = "time"
        /\ duel[prism_active_duels[c]].duration = 300

\* position of the first element of seq that is not in used, 0 when there is none
FirstFreeIndex(seq, used) ==
    IF \E i \in 1..Len(seq) : seq[i] \notin used
    THEN CHOOSE i \in 1..Len(seq) :
            seq[i] \notin used /\ \A j \in 1..(i - 1) : seq[j] \in used
    ELSE 0

\* C33: the reaction selector returns the first suggestion, in suggestion
\* order, that is not in used_reactions; if every suggestion is used, the first
\* entry of the default pool that is not used; if the pool is used up as well,
\* nothing. In a run the chosen token enters used_reactions only in the step in
\* which the React call succeeded, and a failed React call adds nothing.
C33_ReactionSelection ==
    /\ [](calc.fn = "_get_reaction_emoji" =>
             LET suggestions == calc.arg.suggestions
                 used == calc.arg.used
                 i == FirstFreeIndex(suggestions, used)
                 k == FirstFreeIndex(DEFAULT_UNICODE_EMOJIS, used)
             IN calc.out = IF i # 0 THEN suggestions[i]
                           ELSE IF k # 0 THEN DEFAULT_UNICODE_EMOJIS[k]
                           ELSE "")
    /\ [][\A d \in Starts :
             /\ (Constructed(d) /\ duel'[d].used_reactions # duel[d].used_reactions) =>
                   /\ task[d].pc = "react"
                   /\ hist'[d].soft = hist[d].soft
                   /\ duel'[d].used_reactions = duel[d].used_reactions \cup {task[d].emoji}
             /\ (task[d].pc = "react" /\ task'[d] # task[d]
                   /\ hist'[d].soft = hist[d].soft /\ ~hist'[d].cancelled) =>
                   task[d].emoji \in duel'[d].used_reactions
             /\ (task[d].pc = "react" /\ hist'[d].soft > hist[d].soft) =>
                   duel'[d].used_reactions = duel[d].used_reactions]_vars

\* C33 witness: with the first suggestion used and the second free, the
\* selector returned the second suggestion.
C33_Witness ==
    /\ calc.fn = "_get_reaction_emoji"
    /\ calc.arg.suggestions = <<"c1", "c2">>
    /\ calc.arg.used = {"c1", "fire"}
    /\ calc.out = "c2"

\* the part of a clipped text that is kept before the ellipsis
KeptPart(out) == SubSeq(out, 1, Len(out) - Len(Ellipsis))

\* C34: for every text and limit L >= 3, _clip_to_discord_limit returns the text
\* unchanged when its length is at most L; otherwise the result is at most L
\* long, ends with the ellipsis, and the last '<' of the part kept before the
\* ellipsis, if there is one, is followed by a '>'.
C34_ClipKeepsNoOpenBracket ==
    calc.fn = "_clip_to_discord_limit" =>
        LET text == calc.arg.text
            L == calc.arg.max_len
            out == calc.out
        IN IF Len(text) <= L THEN out = text
           ELSE /\ Len(out) <= L
                /\ Len(out) >= Len(Ellipsis)
                /\ SubSeq(out, Len(out) - Len(Ellipsis) + 1, Len(out)) = Ellipsis
                /\ LET kept == KeptPart(out)
                       last == rfind(kept, "<")
                   IN last # 0 => Contains(SubSeq(kept, last, Len(kept)), ">")

\* C35: the request sent to the judge has two messages, the fixed system
\* instruction and one user message whose lines are the topic header, a blank
\* line, the transcript title, one 'DisplayName: content' line for every record
\* of the transcript in transcript order, a blank line and the closing
\* instruction; it names no model and no temperature.
C35_JudgeRequest ==
    \A d \in Starts :
        hist[d].judge_calls > 0 =>
            LET req == hist[d].judge_request
                n == Len(duel[d].messages)
            IN /\ Len(req.messages) = 2
               /\ req.messages[1] = [role |-> "system", content |-> JUDGE_SYSTEM_PROMPT]
               /\ req.messages[2].role = "user"
               /\ req.model = None /\ req.temperature = None
               /\ LET lines == req.messages[2].content
                  IN /\ Len(lines) = n + 5
                     /\ lines[1] = <<"Topic: \"", duel[d].topic, "\"">>
                     /\ lines[2] = "" /\ lines[3] = "Debate Transcript:"
                     /\ \A i \in 1..n :
                           lines[3 + i] = <<duel[d].messages[i].display_name, ": ",
                                            duel[d].messages[i].content>>
                     /\ lines[n + 4] = ""
                     /\ lines[n + 5] = "Please evaluate this debate and declare a winner."

\* C35 witness: the judge was asked about a one-round duel with the two lines
\* of its transcript, the first by the persona with a display name of its own.
C35_Witness ==
    \E d \in Starts :
        /\ hist[d].judge_calls = 1 /\ Len(duel[d].messages) = 2
        /\ hist[d].judge_request.messages[2].content[4] = <<"Merlin the Wise", ": ", "reply">>
        /\ hist[d].judge_request.messages[2].content[5] = <<"Pirate", ": ", "thinking">>

\* C36: when the judge's AI call raises or answers an empty text, the run goes
\* on to post a judgment: the verdict header followed by a fixed 'unable to
\* render a verdict' text; the failure is no error of the run, and the run that
\* posted it has ended with its channel unregistered.
C36_JudgeFailureText ==
    /\ [][\A d \in Starts :
             (task[d].pc = "judge_ai" /\ hist'[d].soft > hist[d].soft) =>
                 /\ task'[d].pc = "judge_typing"
                 /\ ~hist'[d].hard
                 /\ task'[d].response \in {"", JudgeTechnicalIssue}]_vars
    /\ [][\A d \in Starts :
             (task[d].pc = "judge_send" /\ task'[d].pc = "done" /\ ~hist'[d].hard) =>
                 /\ Len(hist'[d].judgment) = 3
                 /\ hist'[d].judgment[1] = "**JUDGMENT**"
                 /\ hist'[d].judgment[3] =
                        CASE task[d].response = "" -> JudgeNoVerdict
                          [] task[d].response = JudgeTechnicalIssue -> JudgeTechnicalIssue
                          [] OTHER -> "verdict"
                 /\ ~InActiveDuels(prism_active_duels', duel[d].channel_id)]_vars
    /\ [](\A d \in Starts :
             (hist[d].judgment # <<>>) =>
                 /\ Ended(d) /\ ~hist[d].hard
                 /\ hist[d].judgment[3] \in {"verdict", JudgeNoVerdict, JudgeTechnicalIssue}
                 /\ ~InActiveDuels(prism_active_duels, duel[d].channel_id))

\* C36 witness: a duel whose judge answered an empty text has ended with the
\* no-verdict judgment posted and its channel unregistered.
C36_Witness ==
    \E d \in Starts :
        /\ Ended(d) /\ ~hist[d].hard /\ hist[d].soft = 1
        /\ hist[d].judgment = <<"**JUDGMENT**", "", JudgeNoVerdict>>
        /\ ~InActiveDuels(prism_active_duels, duel[d].channel_id)

\* C37: for a speaking persona p and a transcript of n records the prompt
\* builder returns the system message and one opening prompt when n = 0, and
\* otherwise n + 2 messages: the system message, the n records in order (role
\* assistant with the bare content when the record's persona is p, role user
\* with 'DisplayName: content' otherwise) and one last user 'continue'
\* instruction.
C37_BuildMessages ==
    calc.fn = "_build_messages" =>
        LET p == calc.arg.current_persona
            transcript == calc.arg.duel_state.messages
            n == Len(transcript)
            out == calc.out
        IN /\ out[1] = [role |-> "system", content |-> <<"system_prompt">>]
           /\ n = 0 =>
                 /\ Len(out) = 2
                 /\ out[2].role = "user"
                 /\ out[2].content = OpeningPrompt(calc.arg.duel_state.topic)
           /\ n > 0 =>
                 /\ Len(out) = n + 2
                 /\ \A i \in 1..n :
                       IF transcript[i].persona = p
                       THEN /\ out[i + 1].role = "assistant"
                            /\ out[i + 1].content = <<transcript[i].content>>
                       ELSE /\ out[i + 1].role = "user"
                            /\ out[i + 1].content =
                                   <<transcript[i].display_name, ": ", transcript[i].content>>
                 /\ out[n + 2] = [role |-> "user", content |-> <<ContinuePrompt>>]

\* C37 witness: the builder was called for the pirate after the wizard, the
\* pirate and the wizard had spoken: five messages, the pirate's own line as
\* assistant and the wizard's lines as user under its display name.
C37_Witness ==
    /\ calc.fn = "_build_messages"
    /\ calc.arg.current_persona = "pirate"
    /\ Len(calc.arg.duel_state.messages) = 3
    /\ Len(calc.out) = 5
    /\ calc.out[2] = [role |-> "user", content |-> <<"Merlin the Wise", ": ", "reply">>]
    /\ calc.out[3] = [role |-> "assistant", content |-> <<"reply">>]
    /\ calc.out[4] = [role |-> "user", content |-> <<"Wizard", ": ", "vanished">>]

\* coroutine k holds the lock object it got for channel c
Holds(k, c) == locks.co[k].pc = "holding" /\ locks.co[k].channel = c

\* C38: the lock manager removes a channel's lock only when the lock is not
\* held and was last requested at least cleanup_threshold ago; get_lock gives
\* a coroutine the channel's present lock object unless that object is removed
\* in the same call; and two coroutines never hold lock objects of one channel
\* at the same time.
C38_OneLockPerChannel ==
    /\ [][\A c \in LockChannels :
             (locks._locks[c] # 0 /\ locks'._locks[c] # locks._locks[c]) =>
                 /\ ~locks.locked[locks._locks[c]]
                 /\ locks.now - locks._last_used[c] >= cleanup_threshold]_vars
    /\ [][\A k \in Coroutines, c \in LockChannels :
             (locks.co[k].pc = "idle" /\ locks'.co[k].pc = "waiting"
                 /\ locks'.co[k].channel = c) =>
                 /\ locks'.co[k].lock = locks'._locks[c]
                 /\ (locks._locks[c] # 0 /\ c \notin Removable(locks, locks.now)) =>
                        locks'.co[k].lock = locks._locks[c]]_vars
    /\ [](\A c \in LockChannels, k1, k2 \in Coroutines :
             (Holds(k1, c) /\ Holds(k2, c)) => k1 = k2)

\* C39: one chat_completion call sends one request for the chosen model (the
\* given model, else the default model); it sends a second request, for the
\* fallback model, exactly when the first one failed; it raises OpenRouterError
\* exactly when both failed, and otherwise returns the answer of the model whose
\* request succeeded. No call sends more than two requests.
C39_AtMostTwoRequests ==
    calc.fn = "chat_completion" =>
        LET model == calc.arg.model
            outcomes == calc.arg.outcomes
            out == calc.out
            chosen == IF model = "" THEN default_model ELSE model
        IN /\ Len(out.requests) \in {1, 2}
           /\ out.requests[1] = chosen
           /\ Len(out.requests) = 2 <=> outcomes[1] # "ok"
           /\ Len(out.requests) = 2 => out.requests[2] = fallback_model
           /\ out.raised = "OpenRouterError" <=> (outcomes[1] # "ok" /\ outcomes[2] # "ok")
           /\ out.raised \in {"", "OpenRouterError"}
           /\ out.raised = "" => out.answered = out.requests[Len(out.requests)]

\* C39 witness: the chosen persona model timed out, the fallback model failed
\* with a transport error, and the call raised OpenRouterError after those two
\* requests although a third request would have succeeded.
C39_Witness ==
    /\ calc.fn = "chat_completion"
    /\ calc.arg.model = "persona/model"
    /\ calc.arg.outcomes[1] = "TimeoutException"
    /\ calc.arg.outcomes[2] = "TransportError"
    /\ calc.arg.outcomes[3] = "ok"
    /\ calc.out.requests = <<"persona/model", fallback_model>>
    /\ calc.out.raised = "OpenRouterError"

====
